---- MODULE Spec2Model ----
(***************************************************************************)
(* Model of the ReAct incident agent: ReActAgent.run and its helpers       *)
(* (src/agent/react_agent.py), the AgentState record (src/agent/state.py)  *)
(* and the four diagnostic tools (src/tools/*.py).                         *)
(*                                                                         *)
(* Python values are encoded as follows.                                   *)
(*   None            <<>>                                                  *)
(*   a str s         <<s>>      (where None is also possible)              *)
(*   a dict          a function whose DOMAIN is the set of its keys        *)
(*   {} (empty dict) <<>>       (falsy, like None)                         *)
(*   dict.get(k, d)  Get(dict, k, d)                                       *)
(***************************************************************************)
EXTENDS Integers, Sequences, FiniteSets, TLC

\* Largest step budget (max_steps) a run is started with.
MaxBudget == 3

\* Longest observation history the pure helpers are applied to.
MaxHistory == 3

None == <<>>

Get(dict, key, default) == IF key \in DOMAIN dict THEN dict[key] ELSE default

\* Python truthiness of an optional str: None and "" are falsy.
StrTruthy(s) == s # None /\ s[1] # ""

RECURSIVE Join(_, _)
\* sep.join(strs)
Join(strs, sep) ==
    IF strs = <<>> THEN ""
    ELSE IF Len(strs) = 1 THEN strs[1]
    ELSE strs[1] \o sep \o Join(Tail(strs), sep)

\* seq[:n]
Take(seq, n) == SubSeq(seq, 1, IF Len(seq) < n THEN Len(seq) ELSE n)

(***************************************************************************)
(* Backing data of the tools (data/*.json, read at every call).  One       *)
(* service per interesting case; "ghost-service" has no record anywhere.   *)
(***************************************************************************)
Services == {"checkout-service", "search-service", "ghost-service"}

MetricsData ==
    [s \in {"checkout-service", "search-service"} |->
        IF s = "checkout-service"
        THEN [cpu_percent |-> 95, latency_ms |-> 200]
        ELSE [cpu_percent |-> 10, latency_ms |-> 600]]

LogsData ==
    [s \in {"checkout-service", "search-service"} |->
        IF s = "checkout-service"
        THEN << [level |-> "ERROR"], [level |-> "INFO"], [level |-> "ERROR"] >>
        ELSE << [level |-> "INFO"] >>]

DeploymentsData ==
    [s \in {"checkout-service"} |-> [version |-> "v2.3.1"]]

\* dependency_health is a dict; its items are listed in insertion order.
DependenciesData ==
    [s \in {"checkout-service", "search-service"} |->
        IF s = "checkout-service"
        THEN [depends_on |-> <<"payments-api", "inventory-db">>,
              dependency_health |-> << <<"payments-api", "degraded">>,
                                       <<"inventory-db", "healthy">> >>]
        ELSE [depends_on |-> <<"payments-api", "inventory-db">>,
              dependency_health |-> << <<"payments-api", "degraded">>,
                                       <<"inventory-db", "down">> >>]]

(***************************************************************************)
(* The tools.                                                              *)
(***************************************************************************)
check_metrics(service) ==
    IF service \notin DOMAIN MetricsData
    THEN [ok |-> FALSE, error |-> "Service not found"]
    ELSE [ok |-> TRUE, service |-> service, metrics |-> MetricsData[service]]

RECURSIVE ErrorLogs(_)
\* [l for l in logs if l["level"] == "ERROR"]
ErrorLogs(logs) ==
    IF logs = <<>> THEN <<>>
    ELSE (IF Head(logs).level = "ERROR" THEN <<Head(logs)>> ELSE <<>>)
         \o ErrorLogs(Tail(logs))

check_logs(service) ==
    LET logs == Get(LogsData, service, <<>>)
        error_logs == ErrorLogs(logs)
    IN  [ok |-> TRUE, service |-> service,
         error_count |-> Len(error_logs),
         recent_errors |-> Take(error_logs, 3)]

check_deployments(service) ==
    IF service \notin DOMAIN DeploymentsData
    THEN [ok |-> FALSE, error |-> "No deployment info"]
    ELSE [ok |-> TRUE, service |-> service, deployment |-> DeploymentsData[service]]

RECURSIVE Degraded(_)
\* [name for name, status in items if status != "healthy"]
Degraded(items) ==
    IF items = <<>> THEN <<>>
    ELSE (IF Head(items)[2] # "healthy" THEN <<Head(items)[1]>> ELSE <<>>)
         \o Degraded(Tail(items))

check_dependencies(service) ==
    IF service \notin DOMAIN DependenciesData
    THEN [ok |-> FALSE, error |-> "No dependency data"]
    ELSE LET deps == DependenciesData[service]
             degraded == Degraded(deps.dependency_health)
         IN  [ok |-> TRUE, service |-> service,
              dependencies |-> deps.depends_on,
              degraded_dependencies |-> degraded]

\* The keys of the registry.
TOOLS == {"check_metrics", "check_logs", "check_deployments", "check_dependencies"}

\* TOOLS[tool_name](service)
CallTool(name, service) ==
    CASE name = "check_metrics"      -> check_metrics(service)
      [] name = "check_logs"         -> check_logs(service)
      [] name = "check_deployments"  -> check_deployments(service)
      [] name = "check_dependencies" -> check_dependencies(service)

(***************************************************************************)
(* _enough_evidence                                                        *)
(***************************************************************************)
RECURSIVE ToolsUsed(_)
\* {obs["tool"] for obs in observations}
ToolsUsed(obs) ==
    IF obs = <<>> THEN {} ELSE {Head(obs).tool} \cup ToolsUsed(Tail(obs))

\* A faulty policy: two distinct tools are enough.
_enough_evidence_two(obs) ==
    LET tools_used == ToolsUsed(obs)
    IN  /\ "check_metrics" \in tools_used
        /\ "check_logs" \in tools_used
        /\ Cardinality(tools_used) >= 2

\* A faulty policy: counts observations instead of distinct tools.
_enough_evidence_by_length(obs) ==
    LET tools_used == ToolsUsed(obs)
    IN  /\ "check_metrics" \in tools_used
        /\ "check_logs" \in tools_used
        /\ Len(obs) >= 3

_enough_evidence(obs) ==
    LET tools_used == ToolsUsed(obs)
    IN  /\ "check_metrics" \in tools_used
        /\ "check_logs" \in tools_used
        /\ Cardinality(tools_used) >= 3

(***************************************************************************)
(* _summarize                                                              *)
(***************************************************************************)
\* The subscript result[key] of the branch taken for this observation raises
\* KeyError.
RaisesKeyError(o) ==
    \/ o.tool = "check_metrics" /\ "metrics" \notin DOMAIN o.result
    \/ o.tool = "check_logs" /\ "error_count" \notin DOMAIN o.result
    \/ o.tool = "check_dependencies" /\ "degraded_dependencies" \notin DOMAIN o.result

SummarizeRaises(obs) == \E i \in 1..Len(obs) : RaisesKeyError(obs[i])

\* What one iteration of the for loop appends to summary.
Appended(o) ==
    IF o.tool = "check_metrics" THEN
        (IF o.result.metrics.cpu_percent > 80
         THEN <<"High CPU usage detected.">> ELSE <<>>)
        \o (IF o.result.metrics.latency_ms > 500
            THEN <<"High service latency observed.">> ELSE <<>>)
    ELSE IF o.tool = "check_logs" THEN
        (IF o.result.error_count > 0
         THEN <<"Application errors found in logs.">> ELSE <<>>)
    ELSE IF o.tool = "check_deployments" THEN
        <<"Recent deployment detected.">>
    ELSE IF o.tool = "check_dependencies" THEN
        (IF o.result.degraded_dependencies # <<>>
         THEN <<"Degraded dependency: " \o Join(o.result.degraded_dependencies, ", ")>>
         ELSE <<>>)
    ELSE <<>>

RECURSIVE SummaryListReversed(_)
\* A faulty fold: each observation's clauses are put before the earlier ones.
SummaryListReversed(obs) ==
    IF obs = <<>> THEN <<>>
    ELSE SummaryListReversed(Tail(obs)) \o Appended(Head(obs))

RECURSIVE SummaryList(_)
SummaryList(obs) ==
    IF obs = <<>> THEN <<>> ELSE Appended(Head(obs)) \o SummaryList(Tail(obs))

\* Defined when ~SummarizeRaises(obs).
_summarize(obs) == "Likely root cause: " \o Join(SummaryList(obs), " ")

(***************************************************************************)
(* What the oracle may answer (_reason returns the text verbatim).  A      *)
(* response is text that json.loads rejects, text that decodes to          *)
(* something other than an object, or text that decodes to an object.      *)
(***************************************************************************)
DefaultConclusion == "Incident analysis completed by agent."

ModelConclusion == "Database connection pool exhausted."

Thought == <<"Check the next signal.">>

FinishDecisions ==
    {[thought |-> Thought, done |-> TRUE]}
    \cup {[thought |-> Thought, conclusion |-> c, done |-> TRUE] :
            c \in {None, <<"">>, <<ModelConclusion>>}}
    \cup {[thought |-> Thought, conclusion |-> <<ModelConclusion>>, done |-> TRUE,
           action |-> [tool |-> "check_logs", args |-> [service |-> "checkout-service"]]]}

ContinueDecisions ==
    {[thought |-> Thought, action |-> [tool |-> t, args |-> [service |-> s]],
      done |-> FALSE] : t \in TOOLS \cup {"restart_service"}, s \in Services}
    \cup {[thought |-> Thought, done |-> FALSE,
           action |-> [args |-> [service |-> "checkout-service"]]]}
    \cup {[thought |-> Thought, done |-> FALSE, action |-> [tool |-> "check_metrics"]]}
    \cup {[action |-> [tool |-> "check_logs", args |-> [service |-> "search-service"]]]}

NeitherDecisions ==
    {[thought |-> Thought],
     [thought |-> Thought, done |-> FALSE],
     [thought |-> Thought, action |-> None, done |-> FALSE]}

Responses ==
    {[json |-> "invalid"], [json |-> "array"]}
    \cup {[json |-> "object", value |-> d] :
            d \in FinishDecisions \cup ContinueDecisions \cup NeitherDecisions}

(***************************************************************************)
(* State.  observations, steps, done, conclusion are the AgentState;       *)
(* max_steps, response, decision, action, tool_name, args, result are the  *)
(* parameters and locals of run; pc is the position in run and fault the   *)
(* exception that left it.  oracleCalls, toolExecs, exitPath, stepObs and  *)
(* stepSteps record the history of the run and are read by no action, and  *)
(* entryFinished records whether run was entered on a finished state (done *)
(* set and a non-empty conclusion).                                        *)
(***************************************************************************)
VARIABLES observations, steps, done, conclusion,
          max_steps, response, decision, action, tool_name, args, result,
          pc, fault,
          oracleCalls, toolExecs, exitPath, stepObs, stepSteps,
          entryFinished

agentState == <<observations, steps, done, conclusion>>
locals == <<response, decision, action, tool_name, args, result>>
history == <<oracleCalls, toolExecs, exitPath, stepObs, stepSteps>>
call == <<max_steps, entryFinished>>
vars == <<agentState, call, locals, pc, fault, history>>

\* AgentState(goal, service) followed by agent.run(state, max_steps).
Init ==
    /\ observations = <<>>
    /\ steps = 0
    /\ done = FALSE
    /\ conclusion = None
    /\ max_steps \in 0..MaxBudget
    /\ response = None /\ decision = None /\ action = None
    /\ tool_name = None /\ args = None /\ result = None
    /\ pc = "while"
    /\ fault = ""
    /\ oracleCalls = 0 /\ toolExecs = 0 /\ exitPath = ""
    /\ stepObs = <<>> /\ stepSteps = 0
    /\ entryFinished = FALSE

Raise(exc) ==
    /\ pc' = "aborted"
    /\ fault' = exc

\* A faulty loop test: state.steps <= max_steps.
WhileTestInclusive ==
    /\ pc = "while"
    /\ IF ~done /\ steps <= max_steps
       THEN /\ pc' = "reason"
            /\ stepObs' = observations
            /\ stepSteps' = steps
            /\ UNCHANGED exitPath
       ELSE /\ pc' = "fallback"
            /\ exitPath' = "budget"
            /\ UNCHANGED <<stepObs, stepSteps>>
    /\ UNCHANGED <<agentState, call, locals, fault, oracleCalls, toolExecs>>

\* A faulty loop test: state.steps < max_steps - 1.
WhileTestEarly ==
    /\ pc = "while"
    /\ IF ~done /\ steps < max_steps - 1
       THEN /\ pc' = "reason"
            /\ stepObs' = observations
            /\ stepSteps' = steps
            /\ UNCHANGED exitPath
       ELSE /\ pc' = "fallback"
            /\ exitPath' = "budget"
            /\ UNCHANGED <<stepObs, stepSteps>>
    /\ UNCHANGED <<agentState, call, locals, fault, oracleCalls, toolExecs>>

\* A faulty loop test: state.done is not tested.
WhileTestIgnoresDone ==
    /\ pc = "while"
    /\ IF steps < max_steps
       THEN /\ pc' = "reason"
            /\ stepObs' = observations
            /\ stepSteps' = steps
            /\ UNCHANGED exitPath
       ELSE /\ pc' = "fallback"
            /\ exitPath' = "budget"
            /\ UNCHANGED <<stepObs, stepSteps>>
    /\ UNCHANGED <<agentState, call, locals, fault, oracleCalls, toolExecs>>

\* while not state.done and state.steps < max_steps
WhileTest ==
    /\ pc = "while"
    /\ IF ~done /\ steps < max_steps
       THEN /\ pc' = "reason"
            /\ stepObs' = observations
            /\ stepSteps' = steps
            /\ UNCHANGED exitPath
       ELSE /\ pc' = "fallback"
            /\ exitPath' = "budget"
            /\ UNCHANGED <<stepObs, stepSteps>>
    /\ UNCHANGED <<agentState, call, locals, fault, oracleCalls, toolExecs>>

\* A faulty oracle adapter: every request is sent twice.
ReasonTwice ==
    /\ pc = "reason"
    /\ \E r \in Responses : response' = r
    /\ oracleCalls' = oracleCalls + 2
    /\ pc' = "parse"
    /\ UNCHANGED <<agentState, call, decision, action, tool_name, args, result,
                   fault, toolExecs, exitPath, stepObs, stepSteps>>

\* response = self._reason(state)
Reason ==
    /\ pc = "reason"
    /\ \E r \in Responses : response' = r
    /\ oracleCalls' = oracleCalls + 1
    /\ pc' = "parse"
    /\ UNCHANGED <<agentState, call, decision, action, tool_name, args, result,
                   fault, toolExecs, exitPath, stepObs, stepSteps>>

\* decision = self._parse_response(response), json.loads accepts the text
\* (a decoded JSON list, which is no dict, is written [items |-> <<>>])
ParseOk ==
    /\ pc = "parse"
    /\ response.json # "invalid"
    /\ decision' = IF response.json = "object" THEN response.value ELSE [items |-> <<>>]
    /\ pc' = IF response.json = "object" THEN "decide" ELSE "notdict"
    /\ UNCHANGED <<agentState, call, response, action, tool_name, args, result,
                   fault, history>>

\* A faulty handler: the same text is parsed again and again.
ParseFailsRetries ==
    /\ pc = "parse"
    /\ response.json = "invalid"
    /\ UNCHANGED vars

\* A faulty handler: the error text is left as the conclusion before raising.
ParseFailsWithConclusion ==
    /\ pc = "parse"
    /\ response.json = "invalid"
    /\ conclusion' = <<"Invalid JSON from model">>
    /\ Raise("ValueError: Invalid JSON from model")
    /\ UNCHANGED <<observations, steps, done, call, locals, history>>

\* json.loads raises JSONDecodeError, _parse_response raises ValueError
ParseFails ==
    /\ pc = "parse"
    /\ response.json = "invalid"
    /\ Raise("ValueError: Invalid JSON from model")
    /\ UNCHANGED <<agentState, call, locals, history>>

\* decision.get on a decoded value that is no dict
DecisionNotDict ==
    /\ pc = "notdict"
    /\ Raise("AttributeError")
    /\ UNCHANGED <<agentState, call, locals, history>>

\* A faulty model-driven stop: decision.get("conclusion") or the placeholder.
ModelStopOrDefault ==
    /\ pc = "decide"
    /\ Get(decision, "done", FALSE)
    /\ done' = TRUE
    /\ conclusion' = IF StrTruthy(Get(decision, "conclusion", None))
                     THEN decision.conclusion
                     ELSE <<DefaultConclusion>>
    /\ exitPath' = "finish"
    /\ pc' = "fallback"
    /\ UNCHANGED <<observations, steps, call, locals, fault,
                   oracleCalls, toolExecs, stepObs, stepSteps>>

\* if decision.get("done"): the model-driven stop
ModelStop ==
    /\ pc = "decide"
    /\ Get(decision, "done", FALSE)
    /\ done' = TRUE
    /\ conclusion' = Get(decision, "conclusion", <<DefaultConclusion>>)
    /\ exitPath' = "finish"
    /\ pc' = "fallback"
    /\ UNCHANGED <<observations, steps, call, locals, fault,
                   oracleCalls, toolExecs, stepObs, stepSteps>>

\* A faulty guardrail: a decision without an action is rejected.
NoActionRaises ==
    /\ pc = "decide"
    /\ ~Get(decision, "done", FALSE)
    /\ Get(decision, "action", None) = None
    /\ action' = None
    /\ Raise("ValueError: Invalid JSON from model")
    /\ UNCHANGED <<agentState, call, response, decision, tool_name, args, result,
                   history>>

\* action = decision.get("action"); if not action: break
NoAction ==
    /\ pc = "decide"
    /\ ~Get(decision, "done", FALSE)
    /\ Get(decision, "action", None) = None
    /\ action' = None
    /\ exitPath' = "guardrail"
    /\ pc' = "fallback"
    /\ UNCHANGED <<agentState, call, response, decision, tool_name, args, result,
                   fault, oracleCalls, toolExecs, stepObs, stepSteps>>

\* TOOLS.get(tool_name) is not None
Resolves(act) == "tool" \in DOMAIN act /\ act.tool \in TOOLS

\* A faulty lookup: an unknown tool ends the loop like a missing action.
ExtractToolBreaks ==
    /\ pc = "decide"
    /\ ~Get(decision, "done", FALSE)
    /\ Get(decision, "action", None) # None
    /\ action' = decision.action
    /\ tool_name' = Get(decision.action, "tool", None)
    /\ args' = Get(decision.action, "args", <<>>)
    /\ IF Resolves(decision.action)
       THEN pc' = "execute" /\ UNCHANGED exitPath
       ELSE pc' = "fallback" /\ exitPath' = "guardrail"
    /\ UNCHANGED <<agentState, call, response, decision, result, fault,
                   oracleCalls, toolExecs, stepObs, stepSteps>>

\* tool_name, args, tool_fn are extracted; an unknown tool raises ValueError
ExtractTool ==
    /\ pc = "decide"
    /\ ~Get(decision, "done", FALSE)
    /\ Get(decision, "action", None) # None
    /\ action' = decision.action
    /\ tool_name' = Get(decision.action, "tool", None)
    /\ args' = Get(decision.action, "args", <<>>)
    /\ IF Resolves(decision.action)
       THEN pc' = "execute" /\ UNCHANGED fault
       ELSE Raise("ValueError: Unknown tool requested by agent")
    /\ UNCHANGED <<agentState, call, response, decision, result, history>>

\* result = tool_fn(**args), the tool returns
ExecuteTool ==
    /\ pc = "execute"
    /\ DOMAIN args = {"service"}
    /\ result' = CallTool(tool_name, args.service)
    /\ toolExecs' = toolExecs + 1
    /\ pc' = "store"
    /\ UNCHANGED <<agentState, call, response, decision, action, tool_name, args,
                   fault, oracleCalls, exitPath, stepObs, stepSteps>>

\* tool_fn(**args) with args that do not bind service: TypeError
ExecuteBadArgs ==
    /\ pc = "execute"
    /\ DOMAIN args # {"service"}
    /\ Raise("TypeError")
    /\ UNCHANGED <<agentState, call, locals, history>>

\* open(DATA_FILE) or json.load fails inside the tool
ExecuteStoreFault ==
    /\ pc = "execute"
    /\ DOMAIN args = {"service"}
    /\ toolExecs' = toolExecs + 1
    /\ Raise("OSError")
    /\ UNCHANGED <<agentState, call, locals, oracleCalls, exitPath, stepObs, stepSteps>>

\* A faulty record: "step": state.steps.
StoreObservationZeroBased ==
    /\ pc = "store"
    /\ observations' = Append(observations,
                              [step |-> steps,
                               thought |-> Get(decision, "thought", None),
                               tool |-> tool_name,
                               args |-> args,
                               result |-> result])
    /\ pc' = "count"
    /\ UNCHANGED <<steps, done, conclusion, call, locals, fault, history>>

\* state.observations.append({..., "step": state.steps + 1, ...})
StoreObservation ==
    /\ pc = "store"
    /\ observations' = Append(observations,
                              [step |-> steps + 1,
                               thought |-> Get(decision, "thought", None),
                               tool |-> tool_name,
                               args |-> args,
                               result |-> result])
    /\ pc' = "count"
    /\ UNCHANGED <<steps, done, conclusion, call, locals, fault, history>>

\* A faulty count: every loop iteration that records an observation counts twice.
CountStepTwice ==
    /\ pc = "count"
    /\ steps' = steps + 2
    /\ pc' = "evidence"
    /\ UNCHANGED <<observations, done, conclusion, call, locals, fault, history>>

\* state.steps += 1; the trace of the step is printed
CountStep ==
    /\ pc = "count"
    /\ steps' = steps + 1
    /\ pc' = "evidence"
    /\ UNCHANGED <<observations, done, conclusion, call, locals, fault, history>>

\* if self._enough_evidence(state.observations): the application-level stop
EvidenceStop ==
    /\ pc = "evidence"
    /\ _enough_evidence(observations)
    /\ done' = TRUE
    /\ exitPath' = "policy"
    /\ IF SummarizeRaises(observations)
       THEN Raise("KeyError") /\ UNCHANGED conclusion
       ELSE /\ conclusion' = <<_summarize(observations)>>
            /\ pc' = "fallback"
            /\ UNCHANGED fault
    /\ UNCHANGED <<observations, steps, call, locals,
                   oracleCalls, toolExecs, stepObs, stepSteps>>

\* the policy does not fire: back to the loop test
EvidenceContinue ==
    /\ pc = "evidence"
    /\ ~_enough_evidence(observations)
    /\ pc' = "while"
    /\ UNCHANGED <<agentState, call, locals, fault, history>>

\* A faulty fallback: computing the fallback summary marks the state done.
FinalFallbackSetsDone ==
    /\ pc = "fallback"
    /\ IF StrTruthy(conclusion)
       THEN pc' = "return" /\ UNCHANGED <<conclusion, fault, done>>
       ELSE IF SummarizeRaises(observations)
            THEN Raise("KeyError") /\ UNCHANGED <<conclusion, done>>
            ELSE /\ conclusion' = <<_summarize(observations)>>
                 /\ done' = TRUE
                 /\ pc' = "return"
                 /\ UNCHANGED fault
    /\ UNCHANGED <<observations, steps, call, locals, history>>

\* A faulty fallback: the summary is assigned without testing state.conclusion.
FinalFallbackAlways ==
    /\ pc = "fallback"
    /\ IF SummarizeRaises(observations)
       THEN Raise("KeyError") /\ UNCHANGED conclusion
       ELSE /\ conclusion' = <<_summarize(observations)>>
            /\ pc' = "return"
            /\ UNCHANGED fault
    /\ UNCHANGED <<observations, steps, done, call, locals, history>>

\* if not state.conclusion: state.conclusion = self._summarize(state)
FinalFallback ==
    /\ pc = "fallback"
    /\ IF StrTruthy(conclusion)
       THEN pc' = "return" /\ UNCHANGED <<conclusion, fault>>
       ELSE IF SummarizeRaises(observations)
            THEN Raise("KeyError") /\ UNCHANGED conclusion
            ELSE /\ conclusion' = <<_summarize(observations)>>
                 /\ pc' = "return"
                 /\ UNCHANGED fault
    /\ UNCHANGED <<observations, steps, done, call, locals, history>>

\* print(state.conclusion); return state
Return ==
    /\ pc = "return"
    /\ pc' = "returned"
    /\ UNCHANGED <<agentState, call, locals, fault, history>>

Next ==
    \/ WhileTest
    \/ Reason
    \/ ParseOk
    \/ ParseFails
    \/ DecisionNotDict
    \/ ModelStop
    \/ NoAction
    \/ ExtractTool
    \/ ExecuteTool
    \/ ExecuteBadArgs
    \/ ExecuteStoreFault
    \/ StoreObservation
    \/ CountStep
    \/ EvidenceStop
    \/ EvidenceContinue
    \/ FinalFallback
    \/ Return

Spec == Init /\ [][Next]_vars

\* run is a sequential program and every oracle call and tool call returns:
\* whenever a step of run is possible, one is taken.
LiveSpec == Init /\ [][Next]_vars /\ WF_pc(Next)

\* The caller passes the state a run returned to agent.run again, with any
\* step budget.
Rerun ==
    /\ pc = "returned"
    /\ max_steps' \in 0..MaxBudget
    /\ entryFinished' = (done /\ StrTruthy(conclusion))
    /\ response' = None /\ decision' = None /\ action' = None
    /\ tool_name' = None /\ args' = None /\ result' = None
    /\ pc' = "while"
    /\ oracleCalls' = 0 /\ toolExecs' = 0 /\ exitPath' = ""
    /\ stepObs' = observations /\ stepSteps' = steps
    /\ UNCHANGED <<agentState, fault>>

RerunNext == Next \/ Rerun

RerunSpec == Init /\ [][RerunNext]_vars

TypeOK ==
    /\ steps \in 0..(MaxBudget + MaxHistory)
    /\ done \in BOOLEAN
    /\ pc \in {"while", "reason", "parse", "notdict", "decide", "execute", "store",
               "count", "evidence", "fallback", "return", "returned", "aborted",
               "history", "evidence_applied", "summarize_applied"}

(***************************************************************************)
(* The two pure helpers applied to arbitrary histories: an AgentState is   *)
(* built observation by observation from every result shape a tool can     *)
(* return, then _enough_evidence or _summarize is called on it; done       *)
(* receives the policy's answer and conclusion the summary.                *)
(***************************************************************************)
MetricsResults ==
    {[ok |-> TRUE, service |-> "checkout-service",
      metrics |-> [cpu_percent |-> c, latency_ms |-> l]] :
        c \in {10, 80, 95}, l \in {200, 500, 600}}
    \cup {[ok |-> FALSE, error |-> "Service not found"]}

LogsResults ==
    {[ok |-> TRUE, service |-> "checkout-service", error_count |-> 0,
      recent_errors |-> <<>>],
     [ok |-> TRUE, service |-> "checkout-service", error_count |-> 2,
      recent_errors |-> << [level |-> "ERROR"], [level |-> "ERROR"] >>]}

DeploymentsResults ==
    {[ok |-> TRUE, service |-> "checkout-service", deployment |-> [version |-> "v2.3.1"]],
     [ok |-> FALSE, error |-> "No deployment info"]}

DependenciesResults ==
    {[ok |-> TRUE, service |-> "checkout-service",
      dependencies |-> <<"payments-api", "inventory-db">>,
      degraded_dependencies |-> d] :
        d \in {<<>>, <<"payments-api">>, <<"payments-api", "inventory-db">>}}
    \cup {[ok |-> FALSE, error |-> "No dependency data"]}

ResultsOf(tool) ==
    CASE tool = "check_metrics"      -> MetricsResults
      [] tool = "check_logs"         -> LogsResults
      [] tool = "check_deployments"  -> DeploymentsResults
      [] tool = "check_dependencies" -> DependenciesResults

HistoryInit ==
    /\ observations = <<>>
    /\ steps = 0
    /\ done = FALSE
    /\ conclusion = None
    /\ max_steps = 0
    /\ response = None /\ decision = None /\ action = None
    /\ tool_name = None /\ args = None /\ result = None
    /\ pc = "history"
    /\ fault = ""
    /\ oracleCalls = 0 /\ toolExecs = 0 /\ exitPath = ""
    /\ stepObs = <<>> /\ stepSteps = 0
    /\ entryFinished = FALSE

\* one more observation, as lines 61-69 record it
HistoryAppend ==
    /\ pc = "history"
    /\ Len(observations) < MaxHistory
    /\ \E t \in TOOLS : \E r \in ResultsOf(t) :
          observations' = Append(observations,
                                 [step |-> steps + 1,
                                  thought |-> Thought,
                                  tool |-> t,
                                  args |-> [service |-> "checkout-service"],
                                  result |-> r])
    /\ steps' = steps + 1
    /\ UNCHANGED <<done, conclusion, call, locals, pc, fault, history>>

\* done = self._enough_evidence(state.observations)
ApplyEnoughEvidence ==
    /\ pc = "history"
    /\ done' = _enough_evidence(observations)
    /\ pc' = "evidence_applied"
    /\ UNCHANGED <<observations, steps, conclusion, call, locals, fault, history>>

\* conclusion = self._summarize(state)
ApplySummarize ==
    /\ pc = "history"
    /\ IF SummarizeRaises(observations)
       THEN fault' = "KeyError" /\ UNCHANGED conclusion
       ELSE conclusion' = <<_summarize(observations)>> /\ UNCHANGED fault
    /\ pc' = "summarize_applied"
    /\ UNCHANGED <<observations, steps, done, call, locals, history>>

HistoryNext ==
    \/ HistoryAppend
    \/ ApplyEnoughEvidence
    \/ ApplySummarize

HistorySpec == HistoryInit /\ [][HistoryNext]_vars

(***************************************************************************)
(* Properties of a run (Spec).                                             *)
(***************************************************************************)
\* The exceptions an oracle response that is not a usable decision raises.
IntegrationFaults ==
    {"ValueError: Invalid JSON from model",
     "ValueError: Unknown tool requested by agent",
     "AttributeError", "TypeError"}

LoopLeft == pc \in {"fallback", "return", "returned"}

\* C1: every run that does not abort with an integration fault or a
\* backing-store fault returns with a non-empty conclusion, whatever the exit
\* path, also when a tool returned a data-not-found result.
C1_NonEmptyConclusion ==
    /\ pc = "aborted" => fault \in IntegrationFaults \cup {"OSError"}
    /\ pc = "returned" => StrTruthy(conclusion)

\* C2 as stated: after a finish decision the run returns with done and with
\* the supplied conclusion, or the placeholder when that is empty or absent
\* (stated for decisions whose conclusion is a string or is absent).
C2_PlaceholderWhenEmpty ==
    (exitPath = "finish" /\ pc = "returned"
     /\ Get(decision, "conclusion", <<"">>) # None) =>
        /\ done
        /\ conclusion = IF StrTruthy(Get(decision, "conclusion", None))
                        THEN decision.conclusion
                        ELSE <<DefaultConclusion>>

\* The conclusion a finish decision d leads to on the history obs.
FinishConclusion(d, obs) ==
    IF "conclusion" \notin DOMAIN d THEN <<DefaultConclusion>>
    ELSE IF StrTruthy(d.conclusion) THEN d.conclusion
    ELSE <<_summarize(obs)>>

\* C2 amended: a finish decision stops the run within its step, without a tool
\* execution and with done set; the conclusion is the supplied text when that
\* is a non-empty string, the placeholder when the decision has no conclusion
\* key, and summarize(observations) when the supplied conclusion is empty or
\* null (the final fallback, which may itself fault with KeyError).
C2_FinishDecision ==
    exitPath = "finish" =>
        /\ done
        /\ Get(decision, "done", FALSE)
        /\ pc \in {"fallback", "return", "returned", "aborted"}
        /\ observations = stepObs /\ steps = stepSteps
        /\ toolExecs = Len(stepObs)
        /\ oracleCalls = Len(stepObs) + 1
        /\ pc \in {"return", "returned"} =>
              conclusion = FinishConclusion(decision, observations)
        /\ pc = "aborted" =>
              /\ fault = "KeyError"
              /\ SummarizeRaises(observations)
              /\ ~StrTruthy(Get(decision, "conclusion", <<DefaultConclusion>>))

C2_Witness ==
    /\ pc = "returned" /\ exitPath = "finish"
    /\ "conclusion" \in DOMAIN decision /\ decision.conclusion = <<"">>
    /\ Len(observations) > 0

\* C3: from a fresh state, never more than max_steps tool executions and
\* never more than max_steps observations.
C3_StepBudget ==
    /\ toolExecs <= max_steps
    /\ Len(observations) <= max_steps

C3_Witness ==
    /\ pc = "returned"
    /\ max_steps = MaxBudget
    /\ toolExecs = max_steps /\ Len(observations) = max_steps

\* C4 as stated: with no finish decision and no policy stop, whatever decoded
\* non-finish responses the oracle gives, the loop is left only at
\* steps = max_steps and the run returns summarize(observations).
C4_StopsOnlyAtBudget ==
    (LoopLeft /\ exitPath \notin {"finish", "policy"}) =>
        /\ steps = max_steps
        /\ pc = "returned" => conclusion = <<_summarize(observations)>>

\* C4 amended: when every response is a continue decision with an action and
\* the policy never fires, the loop is left exactly at steps = max_steps and
\* never earlier, and the final fallback computes summarize(observations): the
\* run returns it, or aborts with KeyError where summarize faults.  The loop
\* is left earlier only by a finish decision, a policy stop or a decoded
\* response without an action.
C4_BudgetExhaustion ==
    /\ exitPath = "budget" =>
          /\ steps = max_steps /\ Len(observations) = max_steps
          /\ ~done
          /\ ~_enough_evidence(observations)
          /\ pc \in {"return", "returned"} =>
                conclusion = <<_summarize(observations)>>
          /\ pc = "aborted" => fault = "KeyError" /\ SummarizeRaises(observations)
    /\ (LoopLeft /\ steps < max_steps) =>
          exitPath \in {"finish", "policy", "guardrail"}
    /\ (LoopLeft /\ steps = max_steps /\ ~done /\ exitPath # "guardrail") =>
          exitPath = "budget"

C4_Witness ==
    /\ pc = "returned" /\ exitPath = "budget"
    /\ max_steps >= 2 /\ steps = max_steps
    /\ conclusion = <<_summarize(observations)>>

RegistryKeys == {"check_metrics", "check_logs", "check_deployments", "check_dependencies"}

\* The positions of run after the decision of the current step was acted on.
AfterDecide ==
    {"execute", "store", "count", "evidence", "fallback", "return", "returned", "aborted"}

HasAction(d) == Get(d, "action", None) # None

DoneFlag(d) == Get(d, "done", FALSE)

\* C5 as stated: a decoded response that carries neither an action nor a true
\* done flag, or that carries both, is rejected: the run never goes on past
\* its decision with such a response.
C5_ShapeEnforced ==
    (pc \in AfterDecide \ {"aborted"} /\ oracleCalls > 0) =>
        (HasAction(decision) /\ ~DoneFlag(decision))
        \/ (DoneFlag(decision) /\ ~HasAction(decision))

\* C5 amended: a response that json.loads rejects aborts the run with
\* ValueError, and one that decodes to something other than an object aborts
\* it with AttributeError; a decoded object is not validated further: with a
\* true done flag it is a finish decision even if it also carries an action,
\* and with neither a true done flag nor an action it ends the loop without a
\* fault, the run terminating with done false and the fallback summary (or
\* with the KeyError of the summary).
C5_DecodeFaultsOnly ==
    /\ (oracleCalls > 0 /\ pc # "parse" /\ response.json = "invalid") =>
          pc = "aborted" /\ fault = "ValueError: Invalid JSON from model"
    /\ (oracleCalls > 0 /\ pc \notin {"parse", "notdict"} /\ response.json = "array") =>
          pc = "aborted" /\ fault = "AttributeError"
    /\ fault = "ValueError: Invalid JSON from model" => response.json = "invalid"
    /\ (pc \in AfterDecide /\ oracleCalls > 0 /\ response.json = "object"
        /\ ~HasAction(decision) /\ ~DoneFlag(decision)) =>
          /\ exitPath = "guardrail"
          /\ ~done
          /\ observations = stepObs /\ steps = stepSteps
          /\ LoopLeft \/ (pc = "aborted" /\ fault = "KeyError")
          /\ pc \in {"return", "returned"} =>
                conclusion = <<_summarize(observations)>>
    /\ (pc \in AfterDecide /\ oracleCalls > 0 /\ response.json = "object"
        /\ HasAction(decision) /\ DoneFlag(decision)) =>
          /\ exitPath = "finish"
          /\ done
          /\ LoopLeft

C5_Witness ==
    /\ pc = "returned" /\ exitPath = "guardrail"
    /\ ~HasAction(decision) /\ ~DoneFlag(decision)
    /\ Len(observations) > 0 /\ steps < max_steps

\* C6: a continue decision whose tool is no registry key raises the
\* unknown-tool ValueError and executes no tool; every recorded observation
\* names a registry key.
C6_RegistryOnly ==
    /\ \A i \in 1..Len(observations) : observations[i].tool \in RegistryKeys
    /\ (pc \in AfterDecide /\ oracleCalls > 0 /\ response.json = "object"
        /\ HasAction(decision) /\ ~DoneFlag(decision)
        /\ ~("tool" \in DOMAIN decision.action
             /\ decision.action.tool \in RegistryKeys)) =>
          /\ pc = "aborted"
          /\ fault = "ValueError: Unknown tool requested by agent"
          /\ observations = stepObs
          /\ toolExecs = Len(stepObs)

C6_Witness ==
    /\ pc = "aborted"
    /\ fault = "ValueError: Unknown tool requested by agent"
    /\ "tool" \in DOMAIN decision.action
    /\ decision.action.tool = "restart_service"
    /\ Len(observations) > 0

\* C9: observations.length = steps after every completed step, steps never
\* decreases, and steps grows by exactly one per completed tool execution,
\* at the count that follows the append, and at no other action.
C9_StepCount ==
    /\ [](pc # "count" => Len(observations) = steps)
    /\ [](pc = "count" => Len(observations) = steps + 1)
    /\ [](steps = toolExecs - (IF pc \in {"store", "count"} \/ fault = "OSError"
                               THEN 1 ELSE 0))
    /\ [][/\ steps' >= steps
          /\ steps' # steps =>
                /\ steps' = steps + 1
                /\ pc = "count" /\ pc' = "evidence"
                /\ observations' = observations
                /\ toolExecs' = toolExecs /\ oracleCalls' = oracleCalls
                /\ done' = done /\ conclusion' = conclusion]_vars

C9_Witness ==
    /\ pc = "evidence"
    /\ steps = 2 /\ Len(observations) = 2 /\ toolExecs = 2

\* C10: an abort by a response that fails to decode or by an unknown tool
\* leaves conclusion unset and done false, and observations and steps as they
\* were at the end of the last completed step.
C10_AbortLeavesState ==
    (pc = "aborted"
     /\ fault \in {"ValueError: Invalid JSON from model",
                   "ValueError: Unknown tool requested by agent"}) =>
        /\ conclusion = None
        /\ ~done
        /\ observations = stepObs /\ steps = stepSteps
        /\ Len(observations) = steps

C10_Witness ==
    /\ pc = "aborted"
    /\ fault = "ValueError: Invalid JSON from model"
    /\ Len(observations) = 2 /\ steps = 2

(***************************************************************************)
(* Properties of the pure helpers (HistorySpec).                           *)
(***************************************************************************)
UsedTools == {observations[i].tool : i \in 1..Len(observations)}

\* C7: the policy is true iff the distinct tools used include check_metrics
\* and check_logs and number at least 3, whatever the length of the history
\* and the ok flags of its results.
C7_Sufficient ==
    pc = "evidence_applied" =>
        (done <=> /\ {"check_metrics", "check_logs"} \subseteq UsedTools
                  /\ Cardinality(UsedTools) >= 3)

C7_Witness ==
    /\ pc = "evidence_applied"
    /\ done
    /\ \E i \in 1..Len(observations) : ~observations[i].result.ok

\* The clause list the summary is specified to hold for one observation.
SpecifiedClauses(o) ==
    CASE o.tool = "check_metrics" ->
            (IF o.result.metrics.cpu_percent > 80
             THEN <<"High CPU usage detected.">> ELSE <<>>)
            \o (IF o.result.metrics.latency_ms > 500
                THEN <<"High service latency observed.">> ELSE <<>>)
      [] o.tool = "check_logs" ->
            IF o.result.error_count > 0
            THEN <<"Application errors found in logs.">> ELSE <<>>
      [] o.tool = "check_deployments" -> <<"Recent deployment detected.">>
      [] o.tool = "check_dependencies" ->
            IF Len(o.result.degraded_dependencies) > 0
            THEN <<"Degraded dependency: "
                   \o Join(o.result.degraded_dependencies, ", ") \o ".">>
            ELSE <<>>

RECURSIVE SpecifiedSummary(_)
SpecifiedSummary(obs) ==
    IF obs = <<>> THEN <<>>
    ELSE SpecifiedClauses(Head(obs)) \o SpecifiedSummary(Tail(obs))

\* C8: on a history of success-shaped results the summary is the prefix
\* followed by the specified clauses, the dependency clause ending in a period.
C8_SummaryClauses ==
    (pc = "summarize_applied"
     /\ \A i \in 1..Len(observations) : observations[i].result.ok) =>
        conclusion = <<"Likely root cause: " \o Join(SpecifiedSummary(observations), " ")>>

(***************************************************************************)
(* Further properties of a run (Spec).                                     *)
(***************************************************************************)
\* C11: when the policy is true after a tool execution the run sets done,
\* sets conclusion to summarize(observations) over the history with that
\* step's observation, and stops in that step with no further oracle call or
\* tool execution.
C11_PolicyStop ==
    exitPath = "policy" =>
        /\ done
        /\ oracleCalls = Len(observations) /\ toolExecs = Len(observations)
        /\ LoopLeft
        /\ conclusion = <<_summarize(observations)>>

\* C12 as stated: done never reverts and conclusion, once assigned by any
\* exit path, an empty text included, is never assigned again.
C12_AssignedOnce ==
    [][/\ done => done'
       /\ conclusion # None => conclusion' = conclusion]_vars

\* C12 amended: done only changes from false to true; conclusion is assigned
\* by the finish decision, by the policy stop or by the final fallback, and
\* once it holds a non-empty text it never changes.  A finish decision whose
\* conclusion is empty or null leaves conclusion empty or unset, and the final
\* fallback then assigns summarize(observations) over it.
C12_SetOnceNonEmpty ==
    [][/\ done => done'
       /\ StrTruthy(conclusion) => conclusion' = conclusion
       /\ conclusion' # conclusion =>
             \/ pc = "decide" /\ conclusion = None /\ done' /\ ~done
             \/ pc = "evidence" /\ conclusion = None /\ done' /\ ~done
             \/ pc = "fallback" /\ ~StrTruthy(conclusion) /\ StrTruthy(conclusion')]_vars

C12_Witness ==
    /\ pc = "return" /\ exitPath = "finish"
    /\ "conclusion" \in DOMAIN decision /\ decision.conclusion = <<"">>
    /\ conclusion = <<_summarize(observations)>>

\* C13: the loop is sequential with one oracle call per step.  A tool is
\* executed only after exactly one oracle call and one successful parse of the
\* same step, an oracle call is made only when every earlier step has executed
\* its tool, appended its observation and been counted, and so the oracle
\* calls number at most max_steps and at most one more than the tool
\* executions.
C13_Sequential ==
    /\ [](oracleCalls <= max_steps)
    /\ [](toolExecs <= oracleCalls /\ oracleCalls <= toolExecs + 1)
    /\ [][toolExecs' # toolExecs =>
             /\ toolExecs' = toolExecs + 1
             /\ pc = "execute"
             /\ oracleCalls = toolExecs + 1
             /\ response.json = "object" /\ decision = response.value
             /\ Len(observations) = toolExecs /\ steps = toolExecs]_vars
    /\ [][oracleCalls' # oracleCalls =>
             /\ oracleCalls' = oracleCalls + 1
             /\ pc = "reason" /\ pc' = "parse"
             /\ toolExecs = oracleCalls
             /\ Len(observations) = oracleCalls /\ steps = oracleCalls]_vars

C13_Witness ==
    /\ pc = "returned"
    /\ oracleCalls = MaxBudget /\ toolExecs = MaxBudget - 1
    /\ exitPath = "finish"

\* C15: with every oracle call and tool call returning, every run ends, by
\* returning or by aborting with a fault, whatever the oracle answers, and the
\* loop is entered at most max_steps times.
C15_Terminates ==
    /\ <>(pc \in {"returned", "aborted"})
    /\ [](oracleCalls <= max_steps /\ steps <= max_steps)

C15_Witness ==
    /\ pc = "returned" /\ exitPath = "budget"
    /\ max_steps = MaxBudget
    /\ oracleCalls = max_steps /\ steps = max_steps
    /\ ~done

\* C16 as stated: the observations are numbered 1, 2, ... by position and the
\* step field of an observation equals steps at the moment it is created.
C16_StepIsStepCount ==
    /\ \A i \in 1..Len(observations) : observations[i].step = i
    /\ pc = "count" => observations[Len(observations)].step = steps

\* C16 amended: the observation appended by the k-th tool execution carries
\* step = k, its position; at the moment it is created that is steps + 1, and
\* it equals steps once the step has been counted.
C16_StepNumbers ==
    /\ \A i \in 1..Len(observations) : observations[i].step = i
    /\ pc = "count" =>
          /\ Len(observations) = toolExecs
          /\ observations[Len(observations)].step = toolExecs
          /\ observations[Len(observations)].step = steps + 1
    /\ (pc # "count" /\ Len(observations) > 0) =>
          observations[Len(observations)].step = steps

C16_Witness ==
    /\ pc = "count"
    /\ Len(observations) = 2 /\ observations[2].step = 2
    /\ steps = 1 /\ toolExecs = 2

\* C17: on return done is true iff the run ended by a finish decision or by
\* the policy; a run that ends by exhausting the budget, max_steps = 0
\* included, returns with done false and its conclusion set.
C17_DoneOnReturn ==
    pc = "returned" =>
        /\ done <=> exitPath \in {"finish", "policy"}
        /\ exitPath = "budget" =>
              /\ ~done
              /\ conclusion = <<_summarize(observations)>>
              /\ StrTruthy(conclusion)
        /\ max_steps = 0 => exitPath = "budget"

C17_Witness ==
    /\ pc = "returned"
    /\ max_steps = 0
    /\ ~done /\ conclusion = <<"Likely root cause: ">>

\* The evidence policy as specified, on a history h.
Sufficient(h) ==
    LET used == {h[i].tool : i \in 1..Len(h)}
    IN  /\ {"check_metrics", "check_logs"} \subseteq used
        /\ Cardinality(used) >= 3

RECURSIVE ClausesThrough(_)
\* The clauses of observations 1..k, observation by observation.
ClausesThrough(k) ==
    IF k = 0 THEN <<>>
    ELSE ClausesThrough(k - 1) \o Appended(observations[k])

IsDeployment(o) == o.tool = "check_deployments"

LogsWithErrors(o) == o.tool = "check_logs" /\ o.result.error_count > 0

\* C14: the summary holds the clauses in the order of the observations that
\* triggered them and keeps duplicates: n equal triggering results give the
\* clause n times.
C14_OrderPreservingFold ==
    (pc = "summarize_applied" /\ fault = "") =>
        /\ conclusion = <<"Likely root cause: "
                          \o Join(ClausesThrough(Len(observations)), " ")>>
        /\ (\A i \in 1..Len(observations) : IsDeployment(observations[i])) =>
              conclusion = <<"Likely root cause: "
                             \o Join([i \in 1..Len(observations) |->
                                        "Recent deployment detected."], " ")>>
        /\ (Len(observations) = 2 /\ LogsWithErrors(observations[1])
            /\ IsDeployment(observations[2])) =>
              conclusion = <<"Likely root cause: Application errors found in logs. Recent deployment detected.">>
        /\ (Len(observations) = 2 /\ IsDeployment(observations[1])
            /\ LogsWithErrors(observations[2])) =>
              conclusion = <<"Likely root cause: Recent deployment detected. Application errors found in logs.">>

C14_Witness ==
    /\ pc = "summarize_applied"
    /\ Len(observations) = 3
    /\ \A i \in 1..3 : IsDeployment(observations[i])
    /\ conclusion = <<"Likely root cause: Recent deployment detected. Recent deployment detected. Recent deployment detected.">>

(***************************************************************************)
(* Properties of a second call of run (RerunSpec).                         *)
(***************************************************************************)
\* C19: run entered on a state with done set and a non-empty conclusion makes
\* no oracle call and no tool execution and returns the state with
\* observations, steps, done and conclusion unchanged, whatever max_steps.
C19_IdempotentOnFinished ==
    /\ [](entryFinished =>
             /\ oracleCalls = 0 /\ toolExecs = 0
             /\ fault = ""
             /\ pc \in {"while", "fallback", "return", "returned"}
             /\ done /\ StrTruthy(conclusion)
             /\ observations = stepObs /\ steps = stepSteps)
    /\ [][entryFinished => agentState' = agentState]_vars

C19_Witness ==
    /\ entryFinished
    /\ pc = "returned"
    /\ max_steps = MaxBudget
    /\ Len(observations) > 0 /\ steps < max_steps

====
